---- MODULE Spec2Model ----
(***************************************************************************)
(* Anime Outfit Shop API (src/main.py, src/schemas.py): a catalog-and-     *)
(* order service over a document store with two collections, product and  *)
(* order.  The model has one action per handler (read_root, list_products, *)
(* create_order, test_database, startup_event) and, for the concurrency    *)
(* analysis of seed_products, one action per store round trip.             *)
(*                                                                         *)
(* Text that the code inspects (regex filters, e-mail addresses, error     *)
(* messages that are sliced) is a sequence of one-character strings; text  *)
(* that is only stored and returned is a TLA+ string.  An Optional[str]    *)
(* parameter is a record [present, val].                                   *)
(***************************************************************************)
EXTENDS Integers, Sequences, FiniteSets, TLC

\* ---------------------------------------------------------------- bounds
\* Products already in the persistent store when the process starts.
MaxAdminDocs == 1
\* Documents the order collection may grow to.
MaxOrders == 2

\* ------------------------------------------------------------------ text
UpperChars ==
    <<"A","B","C","D","E","F","G","H","I","J","K","L","M",
      "N","O","P","Q","R","S","T","U","V","W","X","Y","Z">>
LowerChars ==
    <<"a","b","c","d","e","f","g","h","i","j","k","l","m",
      "n","o","p","q","r","s","t","u","v","w","x","y","z">>

\* Case folding of one character, as the store's "i" option does.
FoldMap ==
    [c \in {UpperChars[i] : i \in 1..Len(UpperChars)} |->
        LowerChars[CHOOSE i \in 1..Len(UpperChars) : UpperChars[i] = c]]

Lower(c) == IF c \in DOMAIN FoldMap THEN FoldMap[c] ELSE c

\* Python's s[:n].
Slice(s, n) == IF Len(s) <= n THEN s ELSE SubSeq(s, 1, n)

\* A message of n characters.
Msg(n) == [i \in 1..n |-> "x"]

None == [present |-> FALSE, val |-> <<>>]
Some(v) == [present |-> TRUE, val |-> v]
\* Python truthiness of an Optional[str]: None and "" are both falsy.
Truthy(o) == o.present /\ o.val # <<>>

\* ------------------------------------------------------------- seed data
\* "Shadow Ninja Hoodie"
Title1 ==
    <<"S","h","a","d","o","w"," ","N","i","n","j","a"," ","H","o","o","d","i","e">>
\* "Itachi"
Character1 ==
    <<"I","t","a","c","h","i">>
\* "Oversized streetwear hoodie inspired by Itachi's cloak."
Description1 ==
    <<"O","v","e","r","s","i","z","e","d"," ","s","t","r","e","e","t","w","e","a","r"," ","h",
      "o","o","d","i","e"," ","i","n","s","p","i","r","e","d"," ","b","y"," ","I","t","a","c",
      "h","i","'","s"," ","c","l","o","a","k",".">>
\* "Thunder Breather Jacket"
Title2 ==
    <<"T","h","u","n","d","e","r"," ","B","r","e","a","t","h","e","r"," ","J","a","c","k","e",
      "t">>
\* "Zenitsu"
Character2 ==
    <<"Z","e","n","i","t","s","u">>
\* "Lightweight coach jacket with subtle lightning pattern."
Description2 ==
    <<"L","i","g","h","t","w","e","i","g","h","t"," ","c","o","a","c","h"," ","j","a","c","k",
      "e","t"," ","w","i","t","h"," ","s","u","b","t","l","e"," ","l","i","g","h","t","n","i",
      "n","g"," ","p","a","t","t","e","r","n",".">>
\* "Survey Corps Cloak"
Title3 ==
    <<"S","u","r","v","e","y"," ","C","o","r","p","s"," ","C","l","o","a","k">>
\* "Levi"
Character3 ==
    <<"L","e","v","i">>
\* "Minimalist green cloak reimagined in monochrome."
Description3 ==
    <<"M","i","n","i","m","a","l","i","s","t"," ","g","r","e","e","n"," ","c","l","o","a","k",
      " ","r","e","i","m","a","g","i","n","e","d"," ","i","n"," ","m","o","n","o","c","h","r",
      "o","m","e",".">>

\* ["black", "white", "purple"]
Colors ==
    << <<"b","l","a","c","k">>, <<"w","h","i","t","e">>, <<"p","u","r","p","l","e">> >>
Sizes == <<"S", "M", "L", "XL">>
Image1 == "https://images.unsplash.com/photo-1544025162-d76694265947?q=80&w=1200&auto=format&fit=crop"
Image2 == "https://images.unsplash.com/photo-1490481651871-ab68de25d43d?q=80&w=1200&auto=format&fit=crop"
Image3 == "https://images.unsplash.com/photo-1520975922284-5f5730b979bc?q=80&w=1200&auto=format&fit=crop"

\* seed_data of seed_products; prices are kept as decimal text.
seed_data ==
    << [title |-> Title1, character |-> Character1, description |-> Description1,
        price |-> "59.99", colors |-> Colors, sizes |-> Sizes, image |-> Image1,
        in_stock |-> TRUE],
       [title |-> Title2, character |-> Character2, description |-> Description2,
        price |-> "74.99", colors |-> Colors, sizes |-> Sizes, image |-> Image2,
        in_stock |-> TRUE],
       [title |-> Title3, character |-> Character3, description |-> Description3,
        price |-> "89.99", colors |-> Colors, sizes |-> Sizes, image |-> Image3,
        in_stock |-> TRUE] >>

\* The static list list_products returns when db is None.
fallback ==
    << [id |-> "1", title |-> Title1, character |-> Character1, price |-> "59.99",
        colors |-> Colors, image |-> Image1],
       [id |-> "2", title |-> Title2, character |-> Character2, price |-> "74.99",
        colors |-> Colors, image |-> Image2],
       [id |-> "3", title |-> Title3, character |-> Character3, price |-> "89.99",
        colors |-> Colors, image |-> Image3] >>

\* ------------------------------------------------------------- the store
\* An ObjectId is [oid |-> n]; str() of it is its printed form.
ObjectId(n) == [oid |-> n]
StrId(x) == ToString(x.oid)

\* Products an administrator put into the persistent store before this
\* process started (the API itself never creates products).
AdminDocs ==
    << [_id |-> ObjectId(101), title |-> <<"C","a","p">>,
        character |-> <<"L","E","V","I">>, price |-> "9.50",
        colors |-> <<>>, sizes |-> Sizes, in_stock |-> TRUE],
       [_id |-> ObjectId(102), title |-> <<"A",".","O",".","T">>,
        character |-> <<"E","r","e","n">>, description |-> <<"l","e","v","i","!">>,
        price |-> "12.00", colors |-> << <<"r","e","d">> >>, sizes |-> Sizes,
        in_stock |-> FALSE] >>

\* The store assigns _id on insert.
WithId(doc, n) == [_id |-> ObjectId(n)] @@ doc

\* insert_many(docs) that got k documents in before it returned or raised.
InsertPrefix(coll, docs, oid, k) ==
    coll \o [i \in 1..k |-> WithId(docs[i], oid + i - 1)]

\* Messages a failing store call may carry (str(e)).
ErrMsgs == {Msg(3), Msg(51)}

\* ------------------------------------------------------ identity mapper
\* to_str_id: pop "_id", set "id" to its string form; a falsy (empty)
\* document is returned as it is.
to_str_id_KeepsInternal(doc) ==
    IF DOMAIN doc = {} THEN doc
    ELSE [k \in DOMAIN doc \cup {"id"} |->
             IF k = "id" THEN StrId(doc["_id"]) ELSE doc[k]]

to_str_id(doc) ==
    IF DOMAIN doc = {} THEN doc
    ELSE [k \in (DOMAIN doc \ {"_id"}) \cup {"id"} |->
             IF k = "id" THEN StrId(doc["_id"]) ELSE doc[k]]

\* ------------------------------------------------------ seed initializer
\* What the store does during one seed_products call: count_documents
\* returns or raises, and insert_many gets `inserted` documents in (fewer
\* than all of them: it raised after that many).
SeedOutcomes ==
    {[countOk |-> FALSE, inserted |-> 0]}
        \cup {[countOk |-> TRUE, inserted |-> k] : k \in 0..Len(seed_data)}

seed_products_NoCountCheck(dbv, coll, oid, so) ==
    IF dbv = "None"
    THEN [product |-> coll, nextOid |-> oid, raised |-> FALSE]
    ELSE IF ~so.countOk
    THEN [product |-> coll, nextOid |-> oid, raised |-> TRUE]
    ELSE [product |-> InsertPrefix(coll, seed_data, oid, so.inserted),
          nextOid |-> oid + so.inserted,
          raised  |-> so.inserted < Len(seed_data)]

\* seed_products as one uninterrupted call.
seed_products(dbv, coll, oid, so) ==
    IF dbv = "None"
    THEN [product |-> coll, nextOid |-> oid, raised |-> FALSE]
    ELSE IF ~so.countOk
    THEN [product |-> coll, nextOid |-> oid, raised |-> TRUE]
    ELSE IF Len(coll) = 0
    THEN [product |-> InsertPrefix(coll, seed_data, oid, so.inserted),
          nextOid |-> oid + so.inserted,
          raised  |-> so.inserted < Len(seed_data)]
    ELSE [product |-> coll, nextOid |-> oid, raised |-> FALSE]

\* -------------------------------------------------- product query builder
\* The store's $regex search.  Patterns here are made of literal
\* characters, "." (any character) and "(", which opens a group that no
\* pattern here closes: the store rejects such a pattern.
RegexValid(pat) == \A i \in 1..Len(pat) : pat[i] # "("

CharMatch(p, c, options) ==
    \/ p = "."
    \/ IF options = "i" THEN Lower(p) = Lower(c) ELSE p = c

RegexSearch(pat, s, options) ==
    \E i \in 1..(Len(s) - Len(pat) + 1) :
        \A k \in 1..Len(pat) : CharMatch(pat[k], s[i + k - 1], options)

\* filt of list_products: a key per truthy parameter.
BuildFilter(character, color, q) ==
    LET keys == (IF Truthy(character) THEN {"character"} ELSE {})
                \cup (IF Truthy(color) THEN {"colors"} ELSE {})
                \cup (IF Truthy(q) THEN {"$or"} ELSE {})
    IN [k \in keys |->
          CASE k = "character" -> [regex |-> character.val, options |-> "i"]
            [] k = "colors"    -> color.val
            [] k = "$or"       ->
                 << [field |-> "title", regex |-> q.val, options |-> "i"],
                    [field |-> "description", regex |-> q.val, options |-> "i"],
                    [field |-> "character", regex |-> q.val, options |-> "i"] >>]

\* One {field: {"$regex": ..., "$options": ...}} clause against a document:
\* a missing field matches nothing.
MatchRegex(doc, fld, clause) ==
    /\ fld \in DOMAIN doc
    /\ RegexSearch(clause.regex, doc[fld], clause.options)

\* {"colors": c}: c is an element of the document's colors array.
MatchColors(doc, c) ==
    /\ "colors" \in DOMAIN doc
    /\ \E i \in 1..Len(doc["colors"]) : doc["colors"][i] = c

\* The store's matching: every key of the filter must hold.
Matches(doc, filt) ==
    \A k \in DOMAIN filt :
        CASE k = "character" -> MatchRegex(doc, "character", filt[k])
          [] k = "colors"    -> MatchColors(doc, filt[k])
          [] k = "$or"       ->
               \E i \in 1..Len(filt[k]) : MatchRegex(doc, filt[k][i].field, filt[k][i])

FilterValid(filt) ==
    \A k \in DOMAIN filt :
        CASE k = "character" -> RegexValid(filt[k].regex)
          [] k = "colors"    -> TRUE
          [] k = "$or"       -> \A i \in 1..Len(filt[k]) : RegexValid(filt[k][i].regex)

\* find(filt), in the collection's order.
Find(coll, filt) == SelectSeq(coll, LAMBDA d : Matches(d, filt))

list_products_FilteredFallback(dbv, coll, character, color, q) ==
    LET filt == BuildFilter(character, color, q)
        products == Find(IF dbv = "None" THEN fallback ELSE coll, filt)
    IN IF ~FilterValid(filt)
       THEN [status |-> 500, body |-> <<>>]
       ELSE [status |-> 200,
             body |-> IF dbv = "None" THEN products
                      ELSE [i \in 1..Len(products) |-> to_str_id(products[i])]]

\* list_products: the fallback without a store; otherwise the matching
\* documents through to_str_id.  A pattern the store rejects makes find
\* raise, which the handler does not catch (the framework answers 500).
list_products(dbv, coll, character, color, q) ==
    IF dbv = "None"
    THEN [status |-> 200, body |-> fallback]
    ELSE LET filt == BuildFilter(character, color, q)
             products == Find(coll, filt)
         IN IF ~FilterValid(filt)
            THEN [status |-> 500, body |-> <<>>]
            ELSE [status |-> 200,
                  body |-> [i \in 1..Len(products) |-> to_str_id(products[i])]]

\* --------------------------------------------------------- order creation
\* EmailStr of schemas.Order: one "@" after a non-empty local part, and a
\* domain with a "." strictly inside it.
IsEmail(s) ==
    \E i \in 2..Len(s) :
        /\ s[i] = "@"
        /\ \A j \in 1..Len(s) : s[j] = "@" => j = i
        /\ \E d \in (i + 2)..(Len(s) - 1) : s[d] = "."

\* The CreateOrder body model: the framework answers 422 before the
\* handler runs unless every required field is there (customer_email is
\* declared str, so any string passes).
ValidCreateOrder(payload) ==
    /\ payload.customer_name.present
    /\ payload.customer_email.present
    /\ payload.customer_address.present

\* payload.model_dump(): the five declared fields and nothing else.
model_dump(payload) ==
    [items            |-> payload.items,
     customer_name    |-> payload.customer_name.val,
     customer_email   |-> payload.customer_email.val,
     customer_address |-> payload.customer_address.val,
     note             |-> payload.note]

\* What the store does with one insert_one.
InsertOutcomes ==
    {[ok |-> TRUE, msg |-> <<>>]} \cup {[ok |-> FALSE, msg |-> m] : m \in ErrMsgs}

\* The message create_document fails with when no store is configured.
DbUnavailableMsg == Msg(7)

\* database.create_document: insert the data into the collection and return
\* the new identity as a string; it raises when the store is not configured
\* or rejects the insert.
create_document(dbv, coll, data, oid, io) ==
    IF dbv = "None"
    THEN [raised |-> TRUE, msg |-> DbUnavailableMsg, coll |-> coll, nextOid |-> oid,
          id |-> ""]
    ELSE IF ~io.ok
    THEN [raised |-> TRUE, msg |-> io.msg, coll |-> coll, nextOid |-> oid, id |-> ""]
    ELSE [raised |-> FALSE, msg |-> <<>>, coll |-> Append(coll, WithId(data, oid)),
          nextOid |-> oid + 1, id |-> StrId(ObjectId(oid))]

create_order_Swallows(dbv, coll, payload, oid, io) ==
    LET r == create_document(dbv, coll, model_dump(payload), oid, io)
    IN [status |-> 200, body |-> [id |-> r.id, status |-> "created"],
        order |-> r.coll, nextOid |-> r.nextOid]

\* create_order: the handler's try/except around create_document.
create_order(dbv, coll, payload, oid, io) ==
    LET r == create_document(dbv, coll, model_dump(payload), oid, io)
    IN IF r.raised
       THEN [status |-> 500, detail |-> r.msg, order |-> r.coll, nextOid |-> r.nextOid]
       ELSE [status |-> 200, body |-> [id |-> r.id, status |-> "created"],
             order |-> r.coll, nextOid |-> r.nextOid]

\* ------------------------------------------------------------ diagnostics
\* str(e)[:50] keeps at most this many characters.
ErrSliceLen == 50
\* collections[:10].
CollectionsSliceLen == 10

\* db.list_collection_names(): the collections that hold documents, or an
\* exception.
ListingOutcomes ==
    {[ok |-> TRUE, msg |-> <<>>]} \cup {[ok |-> FALSE, msg |-> m] : m \in ErrMsgs}

CollectionNames(products, orders) ==
    (IF Len(products) > 0 THEN <<"product">> ELSE <<>>)
        \o (IF Len(orders) > 0 THEN <<"order">> ELSE <<>>)

test_database_Unguarded(dbv, environ, products, orders, lo) ==
    IF dbv # "None" /\ ~lo.ok
    THEN [status |-> 500]
    ELSE [status |-> 200,
          body |-> [backend |-> "Running",
                    database |-> IF dbv = "None"
                                 THEN <<"Available but not initialized">>
                                 ELSE <<"Connected & Working">>,
                    connection_status |-> IF dbv = "None" THEN "Not Connected"
                                          ELSE "Connected",
                    collections |-> IF dbv = "None" THEN <<>>
                                    ELSE Slice(CollectionNames(products, orders),
                                               CollectionsSliceLen),
                    database_url  |-> IF environ.DATABASE_URL THEN "Set" ELSE "Not Set",
                    database_name |-> IF environ.DATABASE_NAME THEN "Set" ELSE "Not Set"]]

\* test_database.  The database field is a text built from a fixed part
\* and, after a failure, the sliced message: a sequence whose first
\* element is the fixed part.  The pictographs that open the status texts
\* in the source are left out of the texts here.
test_database(dbv, environ, products, orders, lo) ==
    LET r0 == [backend |-> "Running", database |-> <<"Not Available">>,
               connection_status |-> "Not Connected", collections |-> <<>>]
        r1 == IF dbv # "None"
              THEN LET c == [r0 EXCEPT !.database = <<"Available">>,
                                       !.connection_status = "Connected"]
                   IN IF lo.ok
                      THEN [c EXCEPT
                              !.collections = Slice(CollectionNames(products, orders),
                                                    CollectionsSliceLen),
                              !.database = <<"Connected & Working">>]
                      ELSE [c EXCEPT
                              !.database = <<"Connected but Error: ">>
                                               \o Slice(lo.msg, ErrSliceLen)]
              ELSE [r0 EXCEPT !.database = <<"Available but not initialized">>]
    IN [status |-> 200,
        body |-> r1 @@ [database_url  |-> IF environ.DATABASE_URL THEN "Set" ELSE "Not Set",
                        database_name |-> IF environ.DATABASE_NAME THEN "Set" ELSE "Not Set"]]

\* ------------------------------------------------------------------ state
VARIABLES
    env,        \* os.environ: which of DATABASE_URL, DATABASE_NAME are set
    db,         \* database.db: "None" or "connected"
    product,    \* the product collection, in insertion order
    order,      \* the order collection, in insertion order
    nextOid,    \* the next ObjectId the store hands out
    prevSeed,   \* the startup_event before the last: before, after, raised
    lastSeed,   \* the last startup_event: before, after, raised
    seedPc,     \* per starting process: where its seed_products is
    seedCount,  \* per starting process: the count it read
    request,    \* the last request, with what the store did during it
    response    \* and its response

vars ==
    <<env, db, product, order, nextOid, prevSeed, lastSeed, seedPc, seedCount,
      request, response>>

\* Processes that may start against the same store.
Procs == {1, 2}

\* database.db: a store handle when the connection string and the database
\* name are configured, None otherwise.
DbOf(environ) ==
    IF environ.DATABASE_URL /\ environ.DATABASE_NAME THEN "connected" ELSE "None"

Min(a, b) == IF a <= b THEN a ELSE b

\* seedCount of a process that has not read the count.
NotCounted == 0 - 1

\* No startup_event yet.
NoSeed == [ran |-> FALSE, before |-> 0, after |-> 0, raised |-> FALSE]

Init ==
    /\ env \in [DATABASE_URL : BOOLEAN, DATABASE_NAME : BOOLEAN]
    /\ db = DbOf(env)
    /\ product \in IF db = "None" THEN {<<>>}
                   ELSE {SubSeq(AdminDocs, 1, n) :
                            n \in 0..Min(MaxAdminDocs, Len(AdminDocs))}
    /\ order = <<>>
    /\ nextOid = 1
    /\ prevSeed = NoSeed
    /\ lastSeed = NoSeed
    /\ seedPc = [p \in Procs |-> "idle"]
    /\ seedCount = [p \in Procs |-> NotCounted]
    /\ request = [op |-> "none"]
    /\ response = [status |-> 0]

\* ---------------------------------------------------------------- inputs
Levi == <<"l","e","v","i">>
Black == <<"b","l","a","c","k">>

CharacterInputs == {None, Some(<<>>), Some(Levi), Some(<<".">>)}
ColorInputs == {None, Some(Black)}
QInputs == {None, Some(Levi), Some(<<"(">>)}

\* "armin@aot.jp" and "" as customer_email.
ArminEmail == <<"a","r","m","i","n","@","a","o","t",".","j","p">>
EmailInputs == {Some(ArminEmail), Some(<<>>)}

\* Bodies with every required field, and one without customer_name.
OrderPayloads ==
    {[items |-> <<>>, customer_name |-> Some(<<"A","r","m","i","n">>),
      customer_email |-> e, customer_address |-> Some(<<"W","a","l","l">>),
      note |-> None] : e \in EmailInputs}
    \cup {[items |-> <<>>, customer_name |-> None, customer_email |-> Some(ArminEmail),
            customer_address |-> Some(<<"W","a","l","l">>), note |-> None]}

\* --------------------------------------------------------------- actions
\* startup_event: seed_products, any exception swallowed.
StartupEvent ==
    /\ \E so \in SeedOutcomes :
         LET r == seed_products(db, product, nextOid, so)
         IN /\ product' = r.product
            /\ nextOid' = r.nextOid
            /\ prevSeed' = lastSeed
            /\ lastSeed' = [ran |-> TRUE, before |-> Len(product),
                            after |-> Len(r.product), raised |-> r.raised]
            /\ request' = [op |-> "startup", store |-> so]
            /\ response' = [status |-> 0, raised |-> r.raised]
    /\ UNCHANGED <<env, db, order, seedPc, seedCount>>

\* GET /
ReadRoot ==
    /\ request' = [op |-> "read_root"]
    /\ response' = [status |-> 200,
                    body |-> [message |-> "Anime Outfit Shop API running"]]
    /\ UNCHANGED <<env, db, product, order, nextOid, prevSeed, lastSeed, seedPc, seedCount>>

ListProducts_MutatesStore ==
    /\ \E character \in CharacterInputs, color \in ColorInputs, q \in QInputs :
         /\ request' = [op |-> "list_products", character |-> character,
                        color |-> color, q |-> q]
         /\ response' = list_products(db, product, character, color, q)
    /\ product' = [i \in 1..Len(product) |-> to_str_id(product[i])]
    /\ UNCHANGED <<env, db, order, nextOid, prevSeed, lastSeed, seedPc, seedCount>>

\* GET /api/products
ListProducts ==
    /\ \E character \in CharacterInputs, color \in ColorInputs, q \in QInputs :
         /\ request' = [op |-> "list_products", character |-> character,
                        color |-> color, q |-> q]
         /\ response' = list_products(db, product, character, color, q)
    /\ UNCHANGED <<env, db, product, order, nextOid, prevSeed, lastSeed, seedPc, seedCount>>

\* POST /api/orders
CreateOrder ==
    /\ Len(order) < MaxOrders
    /\ \E payload \in OrderPayloads, io \in InsertOutcomes :
         /\ request' = [op |-> "create_order", payload |-> payload, store |-> io]
         /\ IF ~ValidCreateOrder(payload)
            THEN /\ response' = [status |-> 422]
                 /\ UNCHANGED <<order, nextOid>>
            ELSE LET r == create_order(db, order, payload, nextOid, io)
                 IN /\ order' = r.order
                    /\ nextOid' = r.nextOid
                    /\ response' = IF r.status = 200
                                   THEN [status |-> 200, body |-> r.body]
                                   ELSE [status |-> r.status, detail |-> r.detail]
    /\ UNCHANGED <<env, db, product, prevSeed, lastSeed, seedPc, seedCount>>

\* GET /test
TestDatabase ==
    /\ \E lo \in ListingOutcomes :
         /\ request' = [op |-> "test_database", store |-> lo]
         /\ response' = test_database(db, env, product, order, lo)
    /\ UNCHANGED <<env, db, product, order, nextOid, prevSeed, lastSeed, seedPc, seedCount>>

Next ==
    \/ StartupEvent
    \/ ReadRoot
    \/ ListProducts
    \/ CreateOrder
    \/ TestDatabase

Spec == Init /\ [][Next]_vars

\* ------------------------------------------- seeding, one store call a step
\* Two processes start against the same store; each runs seed_products,
\* whose count_documents and insert_many are separate round trips with no
\* lock between them.  seedPc: "idle" (not called), "counted" (count read),
\* "done" (returned), "failed" (raised, swallowed by startup_event).
SeedCount(p) ==
    /\ seedPc[p] = "idle"
    /\ IF db = "None"
       THEN /\ seedPc' = [seedPc EXCEPT ![p] = "done"]
            /\ UNCHANGED seedCount
       ELSE \E countOk \in BOOLEAN :
              IF countOk
              THEN /\ seedCount' = [seedCount EXCEPT ![p] = Len(product)]
                   /\ seedPc' = [seedPc EXCEPT ![p] = "counted"]
              ELSE /\ seedPc' = [seedPc EXCEPT ![p] = "failed"]
                   /\ UNCHANGED seedCount
    /\ UNCHANGED <<env, db, product, order, nextOid, prevSeed, lastSeed, request, response>>

SeedInsert_Rechecks(p) ==
    /\ seedPc[p] = "counted"
    /\ IF Len(product) = 0
       THEN /\ product' = InsertPrefix(product, seed_data, nextOid, Len(seed_data))
            /\ nextOid' = nextOid + Len(seed_data)
       ELSE UNCHANGED <<product, nextOid>>
    /\ seedPc' = [seedPc EXCEPT ![p] = "done"]
    /\ UNCHANGED <<env, db, order, prevSeed, lastSeed, seedCount, request, response>>

SeedInsert(p) ==
    /\ seedPc[p] = "counted"
    /\ IF seedCount[p] = 0
       THEN \E k \in 0..Len(seed_data) :
              /\ product' = InsertPrefix(product, seed_data, nextOid, k)
              /\ nextOid' = nextOid + k
              /\ seedPc' = [seedPc EXCEPT ![p] =
                               IF k = Len(seed_data) THEN "done" ELSE "failed"]
       ELSE /\ seedPc' = [seedPc EXCEPT ![p] = "done"]
            /\ UNCHANGED <<product, nextOid>>
    /\ UNCHANGED <<env, db, order, prevSeed, lastSeed, seedCount, request, response>>

\* The process is started again: its startup_event will run once more.
Restart(p) ==
    /\ seedPc[p] \in {"done", "failed"}
    /\ seedPc' = [seedPc EXCEPT ![p] = "idle"]
    /\ seedCount' = [seedCount EXCEPT ![p] = NotCounted]
    /\ UNCHANGED <<env, db, product, order, nextOid, prevSeed, lastSeed, request, response>>

NextConc == \E p \in Procs : SeedCount(p) \/ SeedInsert(p) \/ Restart(p)

SpecConc == Init /\ [][NextConc]_vars

\* ================================================================ claims
ApiOps == {"read_root", "list_products", "create_order", "test_database"}

\* The ids of a sequence of public documents, in order.
Ids(body) == [i \in 1..Len(body) |-> body[i]["id"]]

\* --- C1 -----------------------------------------------------------------
\* C1: a create_order call that succeeds returns status "created" and a
\* non-empty string id, and the document it stored has status "pending".
C1_CreatedOrderStoredPending ==
    (request.op = "create_order" /\ response.status = 200) =>
        /\ response.body["status"] = "created"
        /\ response.body["id"] \in STRING
        /\ response.body["id"] # ""
        /\ Len(order) > 0
        /\ "status" \in DOMAIN order[Len(order)]
        /\ order[Len(order)]["status"] = "pending"

\* --- C2 -----------------------------------------------------------------
\* C2: a create_order request whose customer_email is not a syntactically
\* valid e-mail address (the empty string included) is rejected and leaves
\* the order collection as it was.
C2_InvalidEmailRejected ==
    [][(/\ request'.op = "create_order"
        /\ request'.payload.customer_email.present
        /\ ~IsEmail(request'.payload.customer_email.val))
       => (order' = order /\ response'.status # 200)]_vars

\* --- C3 -----------------------------------------------------------------
\* Case-insensitive substring.
SubstringCI(pat, s) ==
    \E i \in 1..(Len(s) - Len(pat) + 1) :
        \A k \in 1..Len(pat) : Lower(pat[k]) = Lower(s[i + k - 1])

FieldContains(doc, fld, pat) == fld \in DOMAIN doc /\ SubstringCI(pat, doc[fld])

\* The predicate of the claim; a filter counts as present when the handler
\* takes it as given (not None and not empty).
Satisfies(doc, character, color, q) ==
    /\ Truthy(character) => FieldContains(doc, "character", character.val)
    /\ Truthy(color) =>
          /\ "colors" \in DOMAIN doc
          /\ \E i \in 1..Len(doc["colors"]) : doc["colors"][i] = color.val
    /\ Truthy(q) =>
          \/ FieldContains(doc, "title", q.val)
          \/ FieldContains(doc, "description", q.val)
          \/ FieldContains(doc, "character", q.val)

\* C3: with the store available, list_products answers with exactly the
\* products that satisfy the conjunction of the given filters, substring
\* semantics for character and q, and with every product when none is given.
C3_ListMatchesSubstringPredicate ==
    (db = "connected" /\ request.op = "list_products") =>
        /\ response.status = 200
        /\ LET want == SelectSeq(product, LAMBDA d :
                           Satisfies(d, request.character, request.color, request.q))
           IN Ids(response.body) = [i \in 1..Len(want) |-> StrId(want[i]["_id"])]

\* --- C4 -----------------------------------------------------------------
\* C4: without a store, list_products answers 200 with exactly the three
\* fallback entries, ids "1", "2", "3", whatever the filters.
C4_FallbackWhenUnavailable ==
    (db = "None" /\ request.op = "list_products") =>
        /\ response.status = 200
        /\ Ids(response.body) = <<"1", "2", "3">>
        /\ response.body = fallback

C4_Witness ==
    /\ db = "None"
    /\ request.op = "list_products"
    /\ Truthy(request.character)
    /\ Truthy(request.color)
    /\ Truthy(request.q)
    /\ Len(response.body) = 3

\* --- C5 -----------------------------------------------------------------
\* The seed documents as the store holds them after an insert that was
\* given the identities from oid on.
Seeded(oid) == [i \in 1..Len(seed_data) |-> WithId(seed_data[i], oid + i - 1)]

\* C5: a seed_products call that returns normally inserts the three demo
\* products if and only if the collection is empty; a call never changes a
\* collection that holds a product; so two calls in sequence against an
\* empty store leave three products.
C5_SeedIdempotent ==
    [][request'.op = "startup" =>
        /\ Len(product) > 0 => product' = product
        /\ db = "None" => product' = product
        /\ (db = "connected" /\ ~response'.raised) =>
              product' = IF Len(product) = 0 THEN Seeded(nextOid) ELSE product
        /\ (/\ db = "connected"
            /\ request.op = "startup"
            /\ lastSeed.before = 0
            /\ ~lastSeed.raised
            /\ ~response'.raised) => Len(product') = 3]_vars

C5_Witness ==
    /\ db = "connected"
    /\ prevSeed.ran /\ prevSeed.before = 0 /\ ~prevSeed.raised
    /\ lastSeed.ran /\ lastSeed.before = 3 /\ ~lastSeed.raised
    /\ product = Seeded(1)

\* --- C6 -----------------------------------------------------------------
\* C6: when the store is not configured or rejects the insert, create_order
\* answers 500 with the failure's message as detail, does not answer
\* "created", and leaves the order collection as it was.
C6_StoreFailureIsServerError ==
    [][(/\ request'.op = "create_order"
        /\ ValidCreateOrder(request'.payload)
        /\ (db = "None" \/ ~request'.store.ok))
       => /\ response'.status = 500
          /\ "body" \notin DOMAIN response'
          /\ response'.detail = IF db = "None" THEN DbUnavailableMsg
                                ELSE request'.store.msg
          /\ order' = order]_vars

C6_Witness ==
    /\ db = "connected"
    /\ request.op = "create_order"
    /\ ValidCreateOrder(request.payload)
    /\ ~request.store.ok
    /\ response.status = 500
    /\ Len(response.detail) > ErrSliceLen
    /\ Len(order) = 1

\* --- C7 -----------------------------------------------------------------
\* C7: every product list_products returns, from the store or from the
\* fallback, has a string id and no _id key.
C7_PublicIdOnly ==
    (request.op = "list_products" /\ response.status = 200) =>
        \A i \in 1..Len(response.body) :
            /\ "id" \in DOMAIN response.body[i]
            /\ response.body[i]["id"] \in STRING
            /\ "_id" \notin DOMAIN response.body[i]

C7_Witness ==
    /\ db = "connected"
    /\ request.op = "list_products"
    /\ response.status = 200
    /\ Len(product) = 3
    /\ Ids(response.body) = <<"1", "2", "3">>

\* --- C8 -----------------------------------------------------------------
\* C8: test_database always answers 200 with a database text: "not
\* initialized" without a store, "Connected but Error: " and the first 50
\* characters of the message when listing the collections raises, and
\* "Connected & Working" otherwise.
C8_DiagnosticsNeverFails ==
    request.op = "test_database" =>
        /\ response.status = 200
        /\ Len(response.body["database"]) >= 1
        /\ \A i \in 1..Len(response.body["database"]) :
               response.body["database"][i] \in STRING
        /\ db = "None" =>
               response.body["database"] = <<"Available but not initialized">>
        /\ (db = "connected" /\ ~request.store.ok) =>
               response.body["database"] =
                   <<"Connected but Error: ">> \o Slice(request.store.msg, ErrSliceLen)
        /\ (db = "connected" /\ request.store.ok) =>
               response.body["database"] = <<"Connected & Working">>

C8_Witness ==
    /\ db = "connected"
    /\ request.op = "test_database"
    /\ ~request.store.ok
    /\ Len(request.store.msg) > ErrSliceLen
    /\ Len(response.body["database"]) = 1 + ErrSliceLen

\* --- C9 -----------------------------------------------------------------
\* C9: no API operation changes the product collection; the order
\* collection changes only by a successful create_order, which appends
\* exactly one document and leaves the existing ones as they were.
C9_ApiFrame ==
    [][request'.op \in ApiOps =>
        /\ product' = product
        /\ \/ order' = order
           \/ /\ request'.op = "create_order"
              /\ response'.status = 200
        /\ (request'.op = "create_order" /\ response'.status = 200) =>
              /\ Len(order') = Len(order) + 1
              /\ SubSeq(order', 1, Len(order)) = order]_vars

C9_Witness ==
    /\ request.op = "create_order"
    /\ response.status = 200
    /\ Len(order) = 2
    /\ Len(product) = 3

\* --- C10 ----------------------------------------------------------------
\* C10: when two seed_products calls have both read a count of zero and
\* both return normally, both have inserted: the collection holds six
\* products, the three demo products twice.
C10_ConcurrentSeedDoubles ==
    (/\ db = "connected"
     /\ \A p \in Procs : seedPc[p] = "done" /\ seedCount[p] = 0) =>
        /\ Len(product) = 6
        /\ \A i \in 1..Len(seed_data) :
               /\ product[i]["title"] = seed_data[i]["title"]
               /\ product[i + Len(seed_data)]["title"] = seed_data[i]["title"]

C10_Witness ==
    /\ db = "connected"
    /\ \A p \in Procs : seedPc[p] = "done" /\ seedCount[p] = 0
    /\ Len(product) = 2 * Len(seed_data)

====
